---- MODULE Spec2Model ----
(***************************************************************************)
(* Model of the validation code of the market-data pipeline:               *)
(*   examples/run_example.py   validate_and_parse, process_file            *)
(*   src/ingestion_engine.py   FinancialDataPipeline.validate_batch,       *)
(*                             transform_stream_data                       *)
(*                                                                         *)
(* Python values are tagged records.  A CSV cell is one of                 *)
(*   Absent      the key is not in the row dict (row[k] raises KeyError)   *)
(*   NoneV       the key maps to None (csv.DictReader's restval for a      *)
(*               short row)                                                *)
(*   a string, described by what the parser in question makes of it.       *)
(* Time is in seconds; an instant is a number of seconds (UTC).            *)
(***************************************************************************)
EXTENDS Integers, Sequences, FiniteSets, TLC

VARIABLES
    header,    \* csv.DictReader's fieldnames: the header line of the file
    pc,        \* process_file: "loop" (reading rows), "done" (returned), "raised"
    valid,     \* process_file's local list  valid: List[TickData]
    rejected,  \* process_file's local list  rejected: List[dict]
    now,       \* the wall clock (datetime.now(timezone.utc)) at the latest call
    raised,    \* the exception that left process_file, NoExc while there is none
    log,       \* history: one entry per row handed to validate_and_parse
    call,      \* FinancialDataPipeline: the call made and its arguments
    allow_nulls, \* config['validation_rules']['allow_nulls']
    bpc,       \* FinancialDataPipeline: "idle", "returned" or "raised"
    ret,       \* the DataFrame the call returned
    warned     \* the dropped count of the logged warning, NoWarning if none

fileVars == <<header, pc, valid, rejected, now, raised, log>>
batchVars == <<call, allow_nulls, bpc, ret, warned>>
vars == <<header, pc, valid, rejected, now, raised, log, call, allow_nulls, bpc, ret, warned>>

-----------------------------------------------------------------------------
(* Bounds of the model *)

MaxRows == 2
MaxNow == 1
MaxBatch == 2

-----------------------------------------------------------------------------
(* Python values *)

Absent == [t |-> "absent"]
NoneV == [t |-> "None"]
Str(s) == [t |-> "str", s |-> s]
\* a decimal literal mant * 10^-exp, e.g. "150.25" is DecLit(15025, 2)
DecLit(mant, exp) == [t |-> "str", lit |-> "dec", mant |-> mant, exp |-> exp]
NaNLit == [t |-> "str", lit |-> "nan"]
InfLit == [t |-> "str", lit |-> "inf"]
\* an integer literal, e.g. "100"
IntLit(n) == [t |-> "str", lit |-> "int", val |-> n]
\* an ISO-8601 string with a UTC offset: local wall time and offset, in seconds
IsoAware(local, off) == [t |-> "str", lit |-> "iso", aware |-> TRUE, local |-> local, off |-> off]
\* an ISO-8601 string without timezone
IsoNaive(local) == [t |-> "str", lit |-> "iso", aware |-> FALSE, local |-> local, off |-> 0]
\* a string no parser accepts ("invalid", "junk", "1.5" for int())
Junk == [t |-> "str", lit |-> "junk"]

NoExc == "none"
Ok(v) == [ok |-> TRUE, val |-> v]
Raise(exc, at, msg) == [ok |-> FALSE, exc |-> exc, at |-> at, msg |-> msg]

RECURSIVE Pow10(_)
Pow10(n) == IF n = 0 THEN 1 ELSE 10 * Pow10(n - 1)

-----------------------------------------------------------------------------
(* str methods, on strings as sequences of one-character strings *)

Whitespace == {" "}

UpperChar(c) ==
    CASE c = "a" -> "A"
      [] c = "p" -> "P"
      [] c = "l" -> "L"
      [] OTHER -> c

\* str.upper()
Upper(s) == [i \in 1..Len(s) |-> UpperChar(s[i])]

RECURSIVE LStrip(_)
LStrip(s) == IF s # <<>> /\ Head(s) \in Whitespace THEN LStrip(Tail(s)) ELSE s

RECURSIVE RStrip(_)
RStrip(s) ==
    IF s # <<>> /\ s[Len(s)] \in Whitespace
    THEN RStrip(SubSeq(s, 1, Len(s) - 1))
    ELSE s

\* str.strip()
Strip(s) == RStrip(LStrip(s))

-----------------------------------------------------------------------------
(* Python built-ins used by validate_and_parse *)

\* row[k]
GetItem(row, k) ==
    IF row[k] = Absent THEN Raise("KeyError", k, k) ELSE Ok(row[k])

\* decimal.Decimal(x): an exact decimal, no rounding; its value is
\* mant * 10^-exp.  NaN and Infinity are accepted by the constructor.
Decimal(x) ==
    IF x = NoneV THEN Raise("TypeError", "price", "conversion from NoneType to Decimal")
    ELSE CASE x.lit = "dec" -> Ok([kind |-> "fin", mant |-> x.mant, exp |-> x.exp])
           [] x.lit = "nan" -> Ok([kind |-> "nan", mant |-> 0, exp |-> 0])
           [] x.lit = "inf" -> Ok([kind |-> "inf", mant |-> 1, exp |-> 0])
           [] OTHER -> Raise("InvalidOperation", "price", "ConversionSyntax")

\* Decimal > int and Decimal <= int, for a Decimal that is not NaN.  The
\* comparison is exact: mant * 10^-exp > n iff the integer part exceeds n, or
\* equals n with a non-zero fraction (\div and % round toward minus infinity).
DecGt(d, n) ==
    IF d.kind = "inf" THEN TRUE
    ELSE LET q == d.mant \div Pow10(d.exp)
             f == d.mant % Pow10(d.exp)
         IN q > n \/ (q = n /\ f > 0)
DecLe(d, n) == ~DecGt(d, n)

\* int(x) of a str or None
IntOf(x) ==
    IF x = NoneV THEN Raise("TypeError", "volume", "int() argument must be a string")
    ELSE IF x.lit = "int" THEN Ok(x.val)
    ELSE Raise("ValueError", "volume", "invalid literal for int()")

\* datetime.fromisoformat(x): an aware datetime keeps its local time and
\* offset, a string without offset gives a naive datetime
FromIsoFormat(x) ==
    IF x = NoneV THEN Raise("TypeError", "timestamp", "fromisoformat: argument must be str")
    ELSE IF x.lit = "iso"
         THEN Ok([aware |-> x.aware, local |-> x.local, off |-> x.off])
         ELSE Raise("ValueError", "timestamp", "Invalid isoformat string")

\* the instant (seconds, UTC) of an aware datetime
Instant(dt) == dt.local - dt.off

-----------------------------------------------------------------------------
(* run_example.py: validate_and_parse *)

MaxPrice == 1000000

\* lines 50-52
SymbolStep(row) ==
    LET g == GetItem(row, "symbol") IN
    IF ~g.ok THEN g
    ELSE IF g.val = NoneV
         THEN Raise("AttributeError", "symbol", "NoneType has no attribute strip")
    ELSE LET symbol == Upper(Strip(g.val.s)) IN
         IF symbol = <<>>
         THEN Raise("ValidationError", "symbol", "Empty symbol")
         ELSE Ok(symbol)

\* PriceStep with the upper bound excluded (>= for >)
PriceStepMaxExcluded(row) ==
    LET g == GetItem(row, "price") IN
    IF ~g.ok THEN g
    ELSE LET d == Decimal(g.val) IN
         IF ~d.ok THEN d
         ELSE LET price == d.val IN
              IF price.kind = "nan"
              THEN Raise("InvalidOperation", "price", "comparison involving NaN")
              ELSE IF DecLe(price, 0) \/ ~DecLe(price, MaxPrice - 1)
                   THEN Raise("ValidationError", "price", "Price out of bounds")
                   ELSE Ok(price)

\* lines 54-56
PriceStep(row) ==
    LET g == GetItem(row, "price") IN
    IF ~g.ok THEN g
    ELSE LET d == Decimal(g.val) IN
         IF ~d.ok THEN d
         ELSE LET price == d.val IN
              IF price.kind = "nan"
              THEN Raise("InvalidOperation", "price", "comparison involving NaN")
              ELSE IF DecLe(price, 0) \/ DecGt(price, MaxPrice)
                   THEN Raise("ValidationError", "price", "Price out of bounds")
                   ELSE Ok(price)

\* lines 58-60
VolumeStep(row) ==
    LET g == GetItem(row, "volume") IN
    IF ~g.ok THEN g
    ELSE LET v == IntOf(g.val) IN
         IF ~v.ok THEN v
         ELSE IF v.val < 0
              THEN Raise("ValidationError", "volume", "Negative volume")
              ELSE v

\* TimestampStep rejecting a timestamp equal to the clock (>= for >)
TimestampStepNowRejected(row, clock) ==
    LET g == GetItem(row, "timestamp") IN
    IF ~g.ok THEN g
    ELSE LET p == FromIsoFormat(g.val) IN
         IF ~p.ok THEN p
         ELSE LET timestamp == p.val IN
              IF ~timestamp.aware
              THEN Raise("TypeError", "timestamp",
                         "can't compare offset-naive and offset-aware datetimes")
              ELSE IF Instant(timestamp) >= clock
                   THEN Raise("ValidationError", "timestamp", "Future timestamp")
                   ELSE Ok(timestamp)

\* TimestampStep with an age limit added: a timestamp older than two minutes
\* is refused as well
TimestampStepStaleRejected(row, clock) ==
    LET g == GetItem(row, "timestamp") IN
    IF ~g.ok THEN g
    ELSE LET p == FromIsoFormat(g.val) IN
         IF ~p.ok THEN p
         ELSE LET timestamp == p.val IN
              IF ~timestamp.aware
              THEN Raise("TypeError", "timestamp",
                         "can't compare offset-naive and offset-aware datetimes")
              ELSE IF Instant(timestamp) > clock
                   THEN Raise("ValidationError", "timestamp", "Future timestamp")
                   ELSE IF clock - Instant(timestamp) > 2 * 60
                        THEN Raise("ValidationError", "timestamp", "staleness")
                        ELSE Ok(timestamp)

\* lines 62-64; clock is what datetime.now(timezone.utc) returns
TimestampStep(row, clock) ==
    LET g == GetItem(row, "timestamp") IN
    IF ~g.ok THEN g
    ELSE LET p == FromIsoFormat(g.val) IN
         IF ~p.ok THEN p
         ELSE LET timestamp == p.val IN
              IF ~timestamp.aware
              THEN Raise("TypeError", "timestamp",
                         "can't compare offset-naive and offset-aware datetimes")
              ELSE IF Instant(timestamp) > clock
                   THEN Raise("ValidationError", "timestamp", "Future timestamp")
                   ELSE Ok(timestamp)

Step(f, row, clock) ==
    CASE f = "symbol" -> SymbolStep(row)
      [] f = "price" -> PriceStep(row)
      [] f = "volume" -> VolumeStep(row)
      [] f = "timestamp" -> TimestampStep(row, clock)

\* the statements with volume handled before price
StepOrderVolumeFirst == <<"symbol", "volume", "price", "timestamp">>

\* the order of the statements of validate_and_parse
StepOrder == <<"symbol", "price", "volume", "timestamp">>

\* row.get("exchange", "UNKNOWN")
ExchangeOf(row) ==
    IF row.exchange = Absent THEN Str(<<"UNKNOWN">>) ELSE row.exchange

\* Runs the statements in order from the i-th; got holds the locals assigned
\* so far, read the keys of the row looked at so far.  The first statement
\* that raises ends the call.
RECURSIVE RunFrom(_, _, _, _, _)
RunFrom(i, row, clock, got, read) ==
    IF i > Len(StepOrder)
    THEN [ok |-> TRUE,
          tick |-> [symbol |-> got.symbol, price |-> got.price,
                    volume |-> got.volume, timestamp |-> got.timestamp,
                    exchange |-> ExchangeOf(row)],
          read |-> read \cup {"exchange"}]
    ELSE LET f == StepOrder[i]
             r == Step(f, row, clock)
         IN IF r.ok
            THEN RunFrom(i + 1, row, clock, [got EXCEPT ![f] = r.val], read \cup {f})
            ELSE [ok |-> FALSE, exc |-> r.exc, at |-> r.at, msg |-> r.msg,
                  read |-> read \cup {f}]

Unset == [symbol |-> NoneV, price |-> NoneV, volume |-> NoneV, timestamp |-> NoneV]

validate_and_parse(row, clock) == RunFrom(1, row, clock, Unset, {})

-----------------------------------------------------------------------------
(* The CSV file process_file reads.  csv.DictReader takes the first line as *)
(* the header; every later line becomes a dict with the header's keys: the   *)
(* cells of the line in order, and None for the keys a short line does not   *)
(* reach.  A Line gives a string for each of the five usual columns;         *)
(* BaseLine is well formed, the others differ from it in one cell or in      *)
(* several invalid cells.                                                    *)

Rep(c, n) == [i \in 1..n |-> c]

Fields == {"symbol", "price", "volume", "timestamp", "exchange"}

CanonicalHeader == <<"symbol", "price", "volume", "timestamp", "exchange">>

\* the headers of the files read: all five columns, no volume column, no
\* exchange column, no symbol column
Headers ==
    {CanonicalHeader,
     <<"symbol", "price", "timestamp", "exchange">>,
     <<"symbol", "price", "volume", "timestamp">>,
     <<"price", "volume", "timestamp", "exchange">>}

BaseLine ==
    [symbol |-> Str(<<"A", "A", "P", "L">>),
     price |-> DecLit(15025, 2),
     volume |-> IntLit(100),
     timestamp |-> IsoAware(-60, 0),
     exchange |-> Str(<<"NASDAQ">>)]

SymbolCells ==
    {Str(<<" ", " ">>), Str(<<" ", "a", "a", "p", "l", " ">>),
     Str(Rep("A", 10)), Str(Rep("A", 11))}

PriceCells ==
    {Junk, NaNLit, InfLit,
     DecLit(0, 0), DecLit(-1000, 2), DecLit(1, 3),
     DecLit(1000000, 0), DecLit(10000000, 1), DecLit(10000001, 1)}

VolumeCells == {Junk, IntLit(-1), IntLit(0)}

TimestampCells ==
    {Junk, IsoNaive(-60),
     IsoAware(0, 0), IsoAware(1, 0), IsoAware(7, 0), IsoAware(-121, 0),
     IsoAware(3600, 3600)}

OneCell ==
    {[BaseLine EXCEPT !.symbol = c] : c \in SymbolCells}
    \cup {[BaseLine EXCEPT !.price = c] : c \in PriceCells}
    \cup {[BaseLine EXCEPT !.volume = c] : c \in VolumeCells}
    \cup {[BaseLine EXCEPT !.timestamp = c] : c \in TimestampCells}

\* lines with two invalid cells
TwoCells ==
    {[BaseLine EXCEPT !.symbol = Str(<<" ", " ">>), !.price = Junk],
     [BaseLine EXCEPT !.price = Junk, !.volume = IntLit(-1)],
     [BaseLine EXCEPT !.price = DecLit(-1000, 2), !.timestamp = IsoAware(7, 0)],
     [BaseLine EXCEPT !.volume = IntLit(-1), !.timestamp = Junk]}

\* every checked cell invalid
AllBad ==
    [BaseLine EXCEPT !.symbol = Str(<<>>), !.price = DecLit(-1000, 2),
                     !.volume = IntLit(-1), !.timestamp = IsoAware(7, 0)]

\* a usable symbol, every other checked cell invalid
ThreeBad ==
    [BaseLine EXCEPT !.price = DecLit(-1000, 2), !.volume = IntLit(-1),
                     !.timestamp = IsoAware(7, 0)]

\* the lines tried under a header: all of them under the usual header
Lines(h) ==
    IF h = CanonicalHeader
    THEN {BaseLine, AllBad, ThreeBad} \cup OneCell \cup TwoCells
    ELSE {BaseLine, ThreeBad}

\* the dict csv.DictReader makes of a line that has cells for the first n
\* columns of header h
DictRow(h, line, n) ==
    [k \in Fields |->
        IF \E i \in 1..Len(h) : h[i] = k
        THEN IF \E i \in 1..n : h[i] = k THEN line[k] ELSE NoneV
        ELSE Absent]

\* the rows of a file with header h: full lines, and BaseLine cut short
Rows(h) ==
    {DictRow(h, line, Len(h)) : line \in Lines(h)}
    \cup {DictRow(h, BaseLine, n) : n \in 1..(Len(h) - 1)}

-----------------------------------------------------------------------------
(* run_example.py: process_file *)

\* line 93: except (ValidationError, ValueError, KeyError)
Caught == {"ValidationError", "ValueError", "KeyError"}

IsCaught(exc) == exc \in Caught

\* process_file has been called: lines 84-88
FileInit ==
    /\ header \in Headers
    /\ pc = "loop"
    /\ valid = <<>>
    /\ rejected = <<>>
    /\ now = 0
    /\ raised = NoExc
    /\ log = <<>>

\* one iteration of the loop of lines 89-94; clock is the wall clock during
\* the call, not earlier than the clock of the call before
ProcessRow(row, clock) ==
    /\ pc = "loop"
    /\ Len(log) < MaxRows
    /\ clock \in now..MaxNow
    /\ now' = clock
    /\ LET r == validate_and_parse(row, clock) IN
       /\ IF r.ok
          THEN /\ valid' = Append(valid, r.tick)
               /\ UNCHANGED <<rejected, pc, raised>>
          ELSE IF IsCaught(r.exc)
          THEN /\ rejected' = Append(rejected, [row |-> row, error |-> r.msg])
               /\ UNCHANGED <<valid, pc, raised>>
          ELSE /\ pc' = "raised"
               /\ raised' = r.exc
               /\ UNCHANGED <<valid, rejected>>
       /\ log' = Append(log, [row |-> row, clock |-> clock, res |-> r])
    /\ UNCHANGED header
    /\ UNCHANGED batchVars

\* line 89: the reader yields the next row of the file
NextRow ==
    \E row \in Rows(header) : \E clock \in 0..MaxNow : ProcessRow(row, clock)

\* the reader is exhausted: line 96, return valid, rejected
EndOfFile ==
    /\ pc = "loop"
    /\ pc' = "done"
    /\ UNCHANGED <<header, valid, rejected, now, raised, log>>
    /\ UNCHANGED batchVars

-----------------------------------------------------------------------------
(* ingestion_engine.py: FinancialDataPipeline.  A DataFrame is its set of   *)
(* columns and its rows in order; a row keeps its index label idx.  NA is a  *)
(* null cell (None, NaN, NaT or <NA>); prices are numbers of cents.          *)

NA == [t |-> "NA"]
Num(v) == [t |-> "num", v |-> v]
NumLit(v) == [t |-> "str", lit |-> "num", v |-> v]
TsLit(v) == [t |-> "str", lit |-> "ts", v |-> v]
Ts(v) == [t |-> "ts", v |-> v]

IsNull(v) == v = NA

\* lines 35-40: the columns of _init_schema_rules, in the order of the dict
SchemaCols == <<"ticker_symbol", "price", "volume", "timestamp">>

\* Series.astype(dtype) on one cell of column col; a key a dict lacks, and
\* None, are null cells of the frame
AsType(col, v) ==
    CASE col = "ticker_symbol" ->
            IF v \in {Absent, NoneV} THEN Ok(NA) ELSE Ok(v)
      [] col = "price" ->
            IF v \in {Absent, NoneV} THEN Ok(NA)
            ELSE IF v.t = "num" THEN Ok(v)
            ELSE IF v.lit = "num" THEN Ok(Num(v.v))
            ELSE Raise("ValueError", col, "could not convert string to float")
      [] col = "volume" ->
            IF v \in {Absent, NoneV}
            THEN Raise("ValueError", col, "cannot convert NA to integer")
            ELSE Ok(v)
      [] col = "timestamp" ->
            IF v \in {Absent, NoneV} THEN Ok(NA)
            ELSE IF v.lit = "ts" THEN Ok(Ts(v.v))
            ELSE Raise("ValueError", col, "unknown datetime string format")

\* pd.DataFrame(raw_batch): the columns are the keys some dict has
DataFrame(raw_batch) ==
    LET cols == {SchemaCols[k] : k \in {k \in 1..Len(SchemaCols) :
                    \E i \in 1..Len(raw_batch) : raw_batch[i][SchemaCols[k]] # Absent}}
    IN [cols |-> cols,
        rows |-> [i \in 1..Len(raw_batch) |->
                    [idx |-> i - 1, cells |-> [c \in cols |-> raw_batch[i][c]]]]]

\* df[subset].dropna(): the rows with no null cell in the subset
DropNa(rows, subset) ==
    SelectSeq(rows, LAMBDA r : \A c \in subset : ~IsNull(r.cells[c]))

\* price > 0 on a float cell; NaN > 0 is False
PricePositive(r) == ~IsNull(r.cells["price"]) /\ r.cells["price"].v > 0

\* the filter with 0 let through (>= for >)
PriceNotNegative(r) == ~IsNull(r.cells["price"]) /\ r.cells["price"].v >= 0

\* line 54: the mask df['price'] > 0
PriceMask(r) == PricePositive(r)

\* line 51: the columns of the null check
NullCheckCols == {"ticker_symbol", "price", "timestamp"}

\* lines 42-60: the returned frame, dropped_count, the warning logged, and
\* the caller's frame after dropna(inplace=True)
validate_batch(df, allow) ==
    LET initial_count == Len(df.rows) IN
    IF ~allow /\ ~(NullCheckCols \subseteq df.cols)
    THEN Raise("KeyError", "dropna", "missing column")
    ELSE LET d1 == IF ~allow THEN DropNa(df.rows, NullCheckCols) ELSE df.rows IN
         IF "price" \notin df.cols
         THEN Raise("KeyError", "price", "missing column")
         ELSE LET d2 == SelectSeq(d1, PriceMask)
                  dropped_count == initial_count - Len(d2)
              IN [ok |-> TRUE,
                  frame |-> [cols |-> df.cols, rows |-> d2],
                  dropped |-> dropped_count,
                  warnings |-> IF dropped_count > 0 THEN <<dropped_count>> ELSE <<>>,
                  inplace |-> [cols |-> df.cols, rows |-> d1]]

\* lines 70-73: the first schema column with a cell astype refuses raises
EnforceTypes(df) ==
    LET bad == {k \in 1..Len(SchemaCols) :
                   /\ SchemaCols[k] \in df.cols
                   /\ \E i \in 1..Len(df.rows) :
                         ~AsType(SchemaCols[k], df.rows[i].cells[SchemaCols[k]]).ok}
    IN IF bad # {}
       THEN LET k == CHOOSE k \in bad : \A j \in bad : k <= j
                i == CHOOSE i \in 1..Len(df.rows) :
                        ~AsType(SchemaCols[k], df.rows[i].cells[SchemaCols[k]]).ok
            IN AsType(SchemaCols[k], df.rows[i].cells[SchemaCols[k]])
       ELSE Ok([cols |-> df.cols,
                rows |-> [i \in 1..Len(df.rows) |->
                            [idx |-> df.rows[i].idx,
                             cells |-> [c \in df.cols |->
                                          AsType(c, df.rows[i].cells[c]).val]]]])

\* lines 76-77: df['ingestion_ts'] = now
WithIngestionTs(df, clock) ==
    [cols |-> df.cols \cup {"ingestion_ts"},
     rows |-> [i \in 1..Len(df.rows) |->
                 [idx |-> df.rows[i].idx,
                  cells |-> [c \in df.cols \cup {"ingestion_ts"} |->
                               IF c = "ingestion_ts" THEN Ts(clock)
                               ELSE df.rows[i].cells[c]]]]]

\* lines 62-79
transform_stream_data(raw_batch, allow, clock) ==
    LET typed == EnforceTypes(DataFrame(raw_batch)) IN
    IF ~typed.ok THEN typed
    ELSE LET df == WithIngestionTs(typed.val, clock)
             r == validate_batch(df, allow)
         IN r

-----------------------------------------------------------------------------
(* The calls made to the pipeline *)

RawBatchRows ==
    [ticker_symbol : {NoneV, Str(<<"AAPL">>)},
     price : {Absent, NoneV, Num(15025), Num(-500), NumLit(0), Junk},
     volume : {NoneV, Num(100)},
     timestamp : {NoneV, TsLit(-60)}]

RawBatches == UNION {[1..n -> RawBatchRows] : n \in 0..MaxBatch}

FrameCells ==
    [ticker_symbol : {NA, Str(<<"AAPL">>)},
     price : {NA, Num(15025), Num(-500), Num(0)},
     volume : {Num(100)},
     timestamp : {NA, Ts(-60)}]

FullFrames ==
    {[cols |-> {"ticker_symbol", "price", "volume", "timestamp"},
      rows |-> [i \in 1..Len(b) |-> [idx |-> i - 1, cells |-> b[i]]]] :
        b \in UNION {[1..n -> FrameCells] : n \in 0..MaxBatch}}

\* df.drop(columns=[col])
Without(df, col) ==
    [cols |-> df.cols \ {col},
     rows |-> [i \in 1..Len(df.rows) |->
                 [idx |-> df.rows[i].idx,
                  cells |-> [c \in df.cols \ {col} |-> df.rows[i].cells[c]]]]]

Frames ==
    FullFrames
    \cup {Without(f, c) : <<f, c>> \in {f \in FullFrames : Len(f.rows) = 1}
                                         \X {"price", "timestamp"}}

NoFrame == [cols |-> {}, rows |-> <<>>]
NoReturn == [ok |-> FALSE, exc |-> NoExc]

CallSet ==
    {[op |-> "transform_stream_data", raw_batch |-> b, df |-> NoFrame] : b \in RawBatches}
    \cup {[op |-> "validate_batch", raw_batch |-> <<>>, df |-> f] : f \in Frames}

\* the frame the call hands to validate_batch, when it gets that far
GivenFrame(c) ==
    IF c.op = "validate_batch" THEN c.df
    ELSE WithIngestionTs(EnforceTypes(DataFrame(c.raw_batch)).val, now)

BatchIdle ==
    /\ call = [op |-> "none", raw_batch |-> <<>>, df |-> NoFrame]
    /\ allow_nulls = FALSE
    /\ bpc = "idle"
    /\ ret = NoReturn
    /\ warned = <<>>

FileIdle ==
    /\ header = <<>>
    /\ pc = "idle"
    /\ valid = <<>>
    /\ rejected = <<>>
    /\ now = 0
    /\ raised = NoExc
    /\ log = <<>>

\* a pipeline has been constructed with its configuration, and a call is due
BatchStart ==
    /\ call \in CallSet
    /\ allow_nulls \in BOOLEAN
    /\ bpc = "idle"
    /\ ret = NoReturn
    /\ warned = <<>>

Finish(r) ==
    /\ ret' = r
    /\ bpc' = IF r.ok THEN "returned" ELSE "raised"
    /\ warned' = IF r.ok THEN r.warnings ELSE <<>>
    /\ UNCHANGED <<call, allow_nulls>>
    /\ UNCHANGED fileVars

ValidateBatch ==
    /\ bpc = "idle"
    /\ call.op = "validate_batch"
    /\ Finish(validate_batch(call.df, allow_nulls))

TransformStreamData ==
    /\ bpc = "idle"
    /\ call.op = "transform_stream_data"
    /\ Finish(transform_stream_data(call.raw_batch, allow_nulls, now))

-----------------------------------------------------------------------------
(* The specifications *)

Init == FileInit /\ BatchIdle

Next ==
    \/ NextRow
    \/ EndOfFile

Spec == Init /\ [][Next]_vars

BatchInit == FileIdle /\ BatchStart

BatchNext ==
    \/ ValidateBatch
    \/ TransformStreamData

SpecBatch == BatchInit /\ [][BatchNext]_vars

-----------------------------------------------------------------------------
(* What the claims speak of, stated on the raw row and on what process_file  *)
(* did with it.  An entry of log is one call of validate_and_parse.          *)

Calls == 1..Len(log)

\* the call returned a tick / ended in an exception process_file catches /
\* ended in an exception that leaves process_file
Accepted(e) == e.res.ok
Rejected(e) == ~e.res.ok /\ e.res.exc \in {"ValidationError", "ValueError", "KeyError"}
Escaped(e) == ~e.res.ok /\ ~Rejected(e)

\* the statement of validate_and_parse that handles field f was reached
Reached(e, f) == f \in e.res.read

\* the price cell is a decimal number
IsDecimalCell(c) == c \notin {Absent, NoneV} /\ c.lit = "dec"
\* the timestamp cell is an ISO-8601 instant with timezone
IsInstantCell(c) == c \notin {Absent, NoneV} /\ c.lit = "iso" /\ c.aware
InstantOfCell(c) == c.local - c.off

\* the ticks of the accepted calls, in order
RECURSIVE TicksOf(_)
TicksOf(l) ==
    IF l = <<>> THEN <<>>
    ELSE (IF Head(l).res.ok THEN <<Head(l).res.tick>> ELSE <<>>) \o TicksOf(Tail(l))

\* what process_file reports about a row besides its fate: the error of a
\* rejected row; an accepted TickData carries no violation and no quality
ViolationsReported(e) == IF Accepted(e) THEN {} ELSE {e.res.msg}

-----------------------------------------------------------------------------
\* C1: a row whose price is not a decimal number or whose timestamp is not an
\* ISO-8601 instant with timezone never makes process_file raise: the row is
\* rejected, no tick is returned, rejected grows by exactly one entry and
\* valid is unchanged.
C1_BadPriceOrTimestampIsRejected ==
    [][(Len(log') = Len(log) + 1
        /\ (~IsDecimalCell(log'[Len(log')].row.price)
            \/ ~IsInstantCell(log'[Len(log')].row.timestamp)))
       => (/\ pc' # "raised"
           /\ raised' = NoExc
           /\ ~log'[Len(log')].res.ok
           /\ Len(rejected') = Len(rejected) + 1
           /\ rejected'[Len(rejected')].row = log'[Len(log')].row
           /\ valid' = valid)]_fileVars

\* C2: every row handed to the loop has exactly one fate: the accepted ticks
\* and the rejected entries together are as many as the rows processed.
C2_EveryRowHasOneFate ==
    /\ Len(valid) + Len(rejected) = Len(log)
    /\ \A i \in Calls :
          \/ Accepted(log[i]) /\ \E k \in 1..Len(valid) : valid[k] = log[i].res.tick
          \/ Rejected(log[i]) /\ \E k \in 1..Len(rejected) : rejected[k].row = log[i].row

\* C3: the price check rejects exactly the prices <= 0 or > 1,000,000: a
\* price in (0, 1,000,000] passes and is returned unchanged, any other price
\* is rejected, and no accepted tick has a price outside (0, 1,000,000].
C3_InBounds(c) == c.mant > 0 /\ c.mant <= 1000000 * Pow10(c.exp)

C3_PriceBounds ==
    /\ \A i \in Calls :
          LET e == log[i]
              c == e.row.price
          IN (Reached(e, "price") /\ IsDecimalCell(c)) =>
                IF C3_InBounds(c)
                THEN /\ (~Accepted(e) => e.res.at # "price")
                     /\ (Accepted(e) =>
                            e.res.tick.price = [kind |-> "fin", mant |-> c.mant, exp |-> c.exp])
                ELSE /\ Rejected(e)
                     /\ e.res.at = "price"
                     /\ e.res.exc = "ValidationError"
    /\ \A k \in 1..Len(valid) :
          /\ valid[k].price.kind = "fin"
          /\ C3_InBounds(valid[k].price)

C3_Witness ==
    /\ \E i \in Calls : Accepted(log[i]) /\ log[i].row.price = DecLit(1000000, 0)
    /\ \E i \in Calls : Rejected(log[i]) /\ log[i].row.price = DecLit(10000001, 1)

\* C4: a row whose timestamp is later than the current instant by more than
\* the 5-second tolerance is rejected and never among the accepted ticks; a
\* row whose timestamp is at or before the current instant is not rejected by
\* the timestamp check; an accepted timestamp is returned unchanged.
ClockSkewTolerance == 5

C4_FutureTimestamps ==
    \A i \in Calls :
       LET e == log[i]
           c == e.row.timestamp
       IN (Reached(e, "timestamp") /\ IsInstantCell(c)) =>
             /\ (InstantOfCell(c) > e.clock + ClockSkewTolerance =>
                    /\ Rejected(e)
                    /\ e.res.at = "timestamp"
                    /\ valid = TicksOf(log))
             /\ (InstantOfCell(c) <= e.clock =>
                    /\ Accepted(e)
                    /\ e.res.tick.timestamp.local = c.local
                    /\ e.res.tick.timestamp.off = c.off
                    /\ e.res.tick.timestamp.aware)

C4_Witness ==
    /\ \E i \in Calls :
          /\ Rejected(log[i]) /\ log[i].res.at = "timestamp"
          /\ IsInstantCell(log[i].row.timestamp)
          /\ InstantOfCell(log[i].row.timestamp) > log[i].clock + ClockSkewTolerance
    /\ \E i \in Calls :
          /\ Accepted(log[i])
          /\ InstantOfCell(log[i].row.timestamp) = log[i].clock
          /\ log[i].clock > 0

\* C5 (as claimed): a row timestamped more than the staleness threshold
\* (2 minutes) in the past and not rejected is accepted, but carries a
\* violation named "staleness"; it is never a plain valid tick.
StalenessThreshold == 120

C5_Stale(e) ==
    /\ IsInstantCell(e.row.timestamp)
    /\ e.clock - InstantOfCell(e.row.timestamp) > StalenessThreshold

C7_NoVolume(c) == c \in {Absent, NoneV}

C7_OtherwiseValid(e) ==
    /\ SymbolStep(e.row).ok
    /\ PriceStep(e.row).ok
    /\ TimestampStep(e.row, e.clock).ok

C7_VolumeOptional ==
    \A i \in Calls :
       LET e == log[i] IN
       /\ (C7_NoVolume(e.row.volume) /\ C7_OtherwiseValid(e)) =>
             (Accepted(e) /\ e.res.tick.volume = 0)
       /\ (~C7_NoVolume(e.row.volume) /\ Accepted(e)) =>
             (e.row.volume.lit = "int" /\ e.row.volume.val >= 0
              /\ e.res.tick.volume = e.row.volume.val)

\* C8: every accepted tick has a non-empty, upper-case symbol of at most 10
\* characters; a row whose symbol is missing, empty after trimming or longer
\* than 10 characters is rejected and produces no tick.
C8_Lower == {"a", "p", "l"}

C8_SymbolShape ==
    /\ \A k \in 1..Len(valid) :
          /\ valid[k].symbol # <<>>
          /\ Len(valid[k].symbol) <= 10
          /\ \A j \in 1..Len(valid[k].symbol) : valid[k].symbol[j] \notin C8_Lower
    /\ \A i \in Calls :
          LET c == log[i].row.symbol IN
          (c \in {Absent, NoneV} \/ Strip(c.s) = <<>> \/ Len(Strip(c.s)) > 10) =>
             ~Accepted(log[i])

\* C10: the fields are checked in the order symbol, price, volume, timestamp
\* and the first failing check ends the call: the reported cause is that of
\* the first invalid field in this order, the later fields are not looked at,
\* and no tick is produced.
C10_Order == <<"symbol", "price", "volume", "timestamp">>

C10_Failing(e) == {j \in 1..4 : ~Step(C10_Order[j], e.row, e.clock).ok}

C10_First(e) == CHOOSE j \in C10_Failing(e) : \A k \in C10_Failing(e) : j <= k

C10_FirstFailureWins ==
    /\ valid = TicksOf(log)
    /\ \A i \in Calls :
          LET e == log[i] IN
          C10_Failing(e) # {} =>
             LET f == C10_Order[C10_First(e)]
                 cause == Step(f, e.row, e.clock)
             IN /\ ~Accepted(e)
                /\ e.res.at = f
                /\ e.res.exc = cause.exc
                /\ e.res.msg = cause.msg
                /\ e.res.read = {C10_Order[j] : j \in 1..C10_First(e)}
                /\ Rejected(e) =>
                      \E k \in 1..Len(rejected) :
                         rejected[k] = [row |-> e.row, error |-> cause.msg]
                /\ Escaped(e) => (i = Len(log) /\ raised = cause.exc)

C10_Witness ==
    \E i \in Calls :
       /\ Cardinality(C10_Failing(log[i])) >= 3
       /\ C10_First(log[i]) = 2
       /\ Rejected(log[i])

-----------------------------------------------------------------------------
(* FinancialDataPipeline: what the claim speaks of *)

NonNull(r, c) == c \in DOMAIN r.cells /\ ~IsNull(r.cells[c])

\* out holds rows of given, each once, in the order of given
IsSubframe(out, given) ==
    /\ \A k \in 1..Len(out) : \E i \in 1..Len(given) : given[i] = out[k]
    /\ \A k, m \in 1..Len(out) : k < m => out[k].idx < out[m].idx

====
